---------------------------- MODULE Spec2Model ----------------------------
(***************************************************************************)
(* A model of the stand-alone programs of the Python-vs-Cpp teaching       *)
(* corpus.  The repository has no shared runtime: every source file is a   *)
(* program of its own.  A behaviour of this module is one run of one       *)
(* program; `prog' names the program, and the state of the others is idle. *)
(*                                                                         *)
(*   "mutex"  cpp/multithreading/example1.cpp                              *)
(*   "words"  cpp/no_ai_practice/words_frequency.cpp                       *)
(*   "csv"    cpp/Examn_objective/Sendthis/Task1/CsvInOut.cpp              *)
(*   "sort"   cpp/Examn_objective/Sendthis/Task2/Myfunctions.cpp           *)
(*   "reader" cpp/11_file_os_interaction/read_file_fast.cpp                *)
(*   "player" cpp/6_oop/static_methods_members.cpp                         *)
(***************************************************************************)
EXTENDS Integers, Sequences, FiniteSets, TLC

VARIABLES
    prog,           \* the program this behaviour runs
    \* ---- multithreading/example1.cpp
    myAmount,       \* int myAmount (line 8)
    m,              \* std::mutex m (line 9): 0 when free, else the owning thread
    tpc,            \* position of threads t1, t2 inside addMoney
    reg,            \* per thread: the value ++myAmount has loaded
    mpc,            \* position of main
    mout,           \* what main printed
    \* ---- no_ai_practice/words_frequency.cpp
    fileOk,         \* whether ./words_frequency_test_file.txt can be opened
    fileData,       \* the bytes of that file
    text,           \* std::string text of main (line 56)
    pos,            \* read position of the stringstream ss of parse
    map,            \* std::unordered_map<std::string, int> map
    vec,            \* std::vector<std::pair<std::string, int>> vec
    wout,           \* the lines main printed, as <<word, count>>
    exc,            \* the exception in flight, "none" when there is none
    wpc,            \* position of main
    \* ---- Examn_objective/Sendthis/Task1/CsvInOut.cpp
    Data,           \* CsvClass::Data, the array ReadData stored
    FData,          \* Array FData of FilterData
    ci, cj,         \* the loop indices i, j of FilterData (0-based)
    Window,         \* std::vector<double> Window
    ZStack,         \* the (m, n) indices of the zeros of the window
    MedValue,       \* double MedValue
    cpc,            \* position of FilterData
    \* ---- Examn_objective/Sendthis/Task2/Myfunctions.cpp and Task 2/main.cpp
    StringVector,   \* the caller's StrV StringVector (main.cpp line 23)
    IntegerVector,  \* the caller's IntV IntegerVector (main.cpp line 22)
    Cont1, Cont2,   \* the parameters of SortFunctionOne, passed by value
    SortedCont1,    \* V1 SortedCont1
    SortedCont2,    \* V2 SortedCont2
    si,             \* the loop index i of the sorting loop (0-based)
    Result,         \* std::pair<StrV, IntV> Result of main
    sexc,           \* the thrown char const*, "none" when nothing is thrown
    sout,           \* what main printed
    spc,            \* position of main / SortFunctionOne
    \* ---- 11_file_os_interaction/read_file_fast.cpp (POSIX build)
    fbytes,         \* the bytes of the file named by filename_
    osFds,          \* the process's open file descriptors
    osMaps,         \* the addresses of the process's live mappings
    reader,         \* the FastFileReader objects: life, fd_, data_, file_size_
    it,             \* the LineIterator of the running range-for loop
    endIt,          \* the end() iterator of that loop
    lines,          \* the string_views the loop body received, as bytes
    fpc,            \* position of the code using the readers
    \* ---- 6_oop/static_methods_members.cpp
    instance_count_, \* static inline int Player::instance_count_ (line 57)
    players         \* the Player objects made so far: alive or not, and id_

mutexVars == <<myAmount, m, tpc, reg, mpc, mout>>

wordsVars == <<fileOk, fileData, text, pos, map, vec, wout, exc, wpc>>

csvVars == <<Data, FData, ci, cj, Window, ZStack, MedValue, cpc>>

sortVars == <<StringVector, IntegerVector, Cont1, Cont2, SortedCont1,
              SortedCont2, si, Result, sexc, sout, spc>>

readerVars == <<fbytes, osFds, osMaps, reader, it, endIt, lines, fpc>>

playerVars == <<instance_count_, players>>

vars == <<prog, mutexVars, wordsVars, csvVars, sortVars, readerVars,
         playerVars>>

\* A step of one program leaves the program chosen and the state of the
\* other programs as they are.
RunsMutex ==
    /\ prog = "mutex"
    /\ UNCHANGED <<prog, wordsVars, csvVars, sortVars, readerVars,
                   playerVars>>
RunsWords ==
    /\ prog = "words"
    /\ UNCHANGED <<prog, mutexVars, csvVars, sortVars, readerVars,
                   playerVars>>
RunsCsv ==
    /\ prog = "csv"
    /\ UNCHANGED <<prog, mutexVars, wordsVars, sortVars, readerVars,
                   playerVars>>
RunsSort ==
    /\ prog = "sort"
    /\ UNCHANGED <<prog, mutexVars, wordsVars, csvVars, readerVars,
                   playerVars>>
RunsReader ==
    /\ prog = "reader"
    /\ UNCHANGED <<prog, mutexVars, wordsVars, csvVars, sortVars, playerVars>>
RunsPlayer ==
    /\ prog = "player"
    /\ UNCHANGED <<prog, mutexVars, wordsVars, csvVars, sortVars, readerVars>>

(***************************************************************************)
(*                    multithreading/example1.cpp                          *)
(***************************************************************************)
Threads == {1, 2}

MutexIdle ==
    /\ myAmount = 0
    /\ m = 0
    /\ tpc = [t \in Threads |-> "unborn"]
    /\ reg = [t \in Threads |-> 0]
    /\ mpc = "idle"
    /\ mout = "none"

\* The state after static initialisation: myAmount = 0, m unlocked, main at
\* line 19, no thread constructed yet.
InitMutex ==
    /\ prog = "mutex"
    /\ myAmount = 0
    /\ m = 0
    /\ tpc = [t \in Threads |-> "unborn"]
    /\ reg = [t \in Threads |-> 0]
    /\ mpc = "spawn1"
    /\ mout = "none"

\* A faulty lock that never waits for the owner to release the mutex.
LockAcquirableNoWait(owner) == TRUE

\* m.lock() returns only when no thread owns the mutex.
LockAcquirable(owner) == owner = 0

\* thread t1(addMoney); thread t2(addMoney);
Spawn(t, here, next) ==
    /\ RunsMutex
    /\ mpc = here
    /\ tpc[t] = "unborn"
    /\ tpc' = [tpc EXCEPT ![t] = "lock"]
    /\ mpc' = next
    /\ UNCHANGED <<myAmount, m, reg, mout>>

\* m.lock()
Lock(t) ==
    /\ RunsMutex
    /\ tpc[t] = "lock"
    /\ LockAcquirable(m)
    /\ m' = t
    /\ tpc' = [tpc EXCEPT ![t] = "load"]
    /\ UNCHANGED <<myAmount, reg, mpc, mout>>

\* ++myAmount on a plain int: the read ...
Load(t) ==
    /\ RunsMutex
    /\ tpc[t] = "load"
    /\ reg' = [reg EXCEPT ![t] = myAmount]
    /\ tpc' = [tpc EXCEPT ![t] = "store"]
    /\ UNCHANGED <<myAmount, m, mpc, mout>>

\* ... and the write of the incremented value.
Store(t) ==
    /\ RunsMutex
    /\ tpc[t] = "store"
    /\ myAmount' = reg[t] + 1
    /\ tpc' = [tpc EXCEPT ![t] = "unlock"]
    /\ UNCHANGED <<m, reg, mpc, mout>>

\* m.unlock(), then addMoney returns and the thread finishes.
Unlock(t) ==
    /\ RunsMutex
    /\ tpc[t] = "unlock"
    /\ m' = 0
    /\ tpc' = [tpc EXCEPT ![t] = "finished"]
    /\ UNCHANGED <<myAmount, reg, mpc, mout>>

\* t1.join(); t2.join(): returns once the thread has finished.
Join(t, here, next) ==
    /\ RunsMutex
    /\ mpc = here
    /\ tpc[t] = "finished"
    /\ mpc' = next
    /\ UNCHANGED <<myAmount, m, tpc, reg, mout>>

\* if (myAmount == 2) cout << "2 means ..." else cout << "1 means ... race"
Report ==
    /\ RunsMutex
    /\ mpc = "if"
    /\ mout' = IF myAmount = 2 THEN "sequential" ELSE "race"
    /\ mpc' = "return"
    /\ UNCHANGED <<myAmount, m, tpc, reg>>

NextMutex ==
    \/ Spawn(1, "spawn1", "spawn2")
    \/ Spawn(2, "spawn2", "join1")
    \/ \E t \in Threads : Lock(t)
    \/ \E t \in Threads : Load(t)
    \/ \E t \in Threads : Store(t)
    \/ \E t \in Threads : Unlock(t)
    \/ Join(1, "join1", "join2")
    \/ Join(2, "join2", "if")
    \/ Report

(***************************************************************************)
(*                   no_ai_practice/words_frequency.cpp                    *)
(* Characters are their codes (unsigned char); a string is a sequence of   *)
(* codes.                                                                  *)
(***************************************************************************)
MaxLen == 5

\* The bytes the input file is drawn from: 'a', 'A', 'b', '.', ' ', '\n'.
Alphabet == {97, 65, 98, 46, 32, 10}

Strings(n) == UNION {[1..k -> Alphabet] : k \in 0..n}

EmptyMap == [w \in {} |-> 0]

WordsIdle ==
    /\ fileOk = FALSE /\ fileData = <<>> /\ text = <<>> /\ pos = 1
    /\ map = EmptyMap /\ vec = <<>> /\ wout = <<>> /\ exc = "none"
    /\ wpc = "idle"

\* main starts with an empty map (line 55); the file is either missing
\* (nothing to read) or holds some bytes.
InitWords ==
    /\ prog = "words"
    /\ \/ fileOk = FALSE /\ fileData = <<>>
       \/ fileOk = TRUE /\ fileData \in Strings(MaxLen)
    /\ text = <<>> /\ pos = 1
    /\ map = EmptyMap /\ vec = <<>> /\ wout = <<>> /\ exc = "none"
    /\ wpc = "open"

\* A read_file without the test of the stream after opening it.
OpenFailedUnchecked(ok) == FALSE

\* if (!file): the stream tests false when the file could not be opened.
OpenFailed(ok) == ~ok

\* read_file, lines 30-32: open the file; a failed open throws
\* std::runtime_error("cannot open file").  main has no try block, so the
\* exception leaves main and the program is terminated.
OpenFile ==
    /\ RunsWords
    /\ wpc = "open"
    /\ IF OpenFailed(fileOk)
       THEN exc' = "cannot open file" /\ wpc' = "terminated"
       ELSE exc' = exc /\ wpc' = "read"
    /\ UNCHANGED <<fileOk, fileData, text, pos, map, vec, wout>>

\* read_file, lines 34-41, and main line 56: size the string to the file and
\* read the whole file into it; main lines 58-59 only reserve buckets.
ReadFile ==
    /\ RunsWords
    /\ wpc = "read"
    /\ text' = fileData
    /\ wpc' = "parse"
    /\ UNCHANGED <<fileOk, fileData, pos, map, vec, wout, exc>>

\* std::isspace in the "C" locale: what operator>> skips and stops at.
IsSpace(c) == c = 32 \/ c \in 9..13

\* std::ispunct in the "C" locale.
IsPunct(c) == c \in (33..47) \cup (58..64) \cup (91..96) \cup (123..126)

\* A tolower that leaves every character as it is.
ToLowerIdentity(c) == c

\* std::tolower in the "C" locale.
ToLower(c) == IF c \in 65..90 THEN c + 32 ELSE c

\* operator>> first skips leading whitespace: the first position >= p that
\* holds no whitespace, Len(s) + 1 at the end of the stream.
RECURSIVE SkipSpace(_, _)
SkipSpace(s, p) ==
    IF p > Len(s) THEN p
    ELSE IF IsSpace(s[p]) THEN SkipSpace(s, p + 1) ELSE p

\* ... and then extracts characters up to the next whitespace or the end.
RECURSIVE ScanWord(_, _)
ScanWord(s, p) ==
    IF p > Len(s) THEN p
    ELSE IF IsSpace(s[p]) THEN p ELSE ScanWord(s, p + 1)

\* std::remove_if: walk the word from position i, moving every character
\* that is no punctuation to the front part `kept'; word.erase then drops
\* the rest.
RECURSIVE RemovePunct(_, _, _)
RemovePunct(word, i, kept) ==
    IF i > Len(word) THEN kept
    ELSE RemovePunct(word, i + 1,
                     IF IsPunct(word[i]) THEN kept ELSE Append(kept, word[i]))

\* std::transform(word.begin(), word.end(), word.begin(), tolower)
Transform(word) == [i \in 1..Len(word) |-> ToLower(word[i])]

\* map[word] += 1: operator[] inserts the key with value 0 when absent.
Increment(mp, word) ==
    [w \in DOMAIN mp \cup {word} |->
        (IF w \in DOMAIN mp THEN mp[w] ELSE 0) + (IF w = word THEN 1 ELSE 0)]

\* One iteration of `while (ss >> word)' in parse (lines 47-51): extract the
\* next word, strip punctuation, lowercase, count it.  The loop ends when
\* the extraction fails at the end of the stream.
ParseWord ==
    /\ RunsWords
    /\ wpc = "parse"
    /\ LET start == SkipSpace(text, pos)
           stop  == ScanWord(text, start)
           word  == SubSeq(text, start, stop - 1)
       IN  IF start > Len(text)
           THEN /\ wpc' = "vec"
                /\ UNCHANGED <<pos, map>>
           ELSE /\ map' = Increment(map, Transform(RemovePunct(word, 1, <<>>)))
                /\ pos' = stop
                /\ wpc' = wpc
    /\ UNCHANGED <<fileOk, fileData, text, vec, wout, exc>>

\* All orders in which the keys of a map can be listed.
Orders(S) ==
    {o \in [1..Cardinality(S) -> S] : \A i, j \in DOMAIN o : i # j => o[i] # o[j]}

\* Line 63: vec(map.begin(), map.end()).  The iteration order of an
\* unordered_map is unspecified: any order of the keys.
BuildVec ==
    /\ RunsWords
    /\ wpc = "vec"
    /\ \E o \in Orders(DOMAIN map) :
          vec' = [i \in DOMAIN o |-> <<o[i], map[o[i]]>>]
    /\ wpc' = "sort"
    /\ UNCHANGED <<fileOk, fileData, text, pos, map, wout, exc>>

\* std::string operator<: lexicographic on unsigned char, a proper prefix
\* comes first.
RECURSIVE StringLess(_, _)
StringLess(a, b) ==
    IF b = <<>> THEN FALSE
    ELSE IF a = <<>> THEN TRUE
    ELSE IF Head(a) # Head(b) THEN Head(a) < Head(b)
    ELSE StringLess(Tail(a), Tail(b))

\* A comparator that orders by count alone.
CompareCountOnly(a, b) == a[2] > b[2]

\* The lambda of lines 66-69.
Compare(a, b) ==
    IF a[2] # b[2] THEN a[2] > b[2] ELSE StringLess(a[1], b[1])

\* std::sort(vec.begin(), vec.end(), comp), as an insertion sort: x goes in
\* front of the first element it must precede.
RECURSIVE InsertSorted(_, _)
InsertSorted(x, s) ==
    IF s = <<>> THEN <<x>>
    ELSE IF Compare(x, Head(s)) THEN <<x>> \o s
    ELSE <<Head(s)>> \o InsertSorted(x, Tail(s))

RECURSIVE StdSort(_)
StdSort(v) == IF v = <<>> THEN <<>> ELSE InsertSorted(Head(v), StdSort(Tail(v)))

\* Lines 65-69.
SortVec ==
    /\ RunsWords
    /\ wpc = "sort"
    /\ vec' = StdSort(vec)
    /\ wpc' = "print"
    /\ UNCHANGED <<fileOk, fileData, text, pos, map, wout, exc>>

\* Lines 71-73: one line per element of vec, in order; then return 0.
PrintElement ==
    /\ RunsWords
    /\ wpc = "print"
    /\ IF Len(wout) < Len(vec)
       THEN wout' = Append(wout, vec[Len(wout) + 1]) /\ wpc' = wpc
       ELSE wout' = wout /\ wpc' = "return"
    /\ UNCHANGED <<fileOk, fileData, text, pos, map, vec, exc>>

NextWords ==
    \/ OpenFile
    \/ ReadFile
    \/ ParseWord
    \/ BuildVec
    \/ SortVec
    \/ PrintElement

(***************************************************************************)
(*               Examn_objective/Sendthis/Task1/CsvInOut.cpp               *)
(* A double is modelled exactly, as a whole number of 1/Scale units: the   *)
(* data read are whole numbers, and each of the at most MaxCells windows   *)
(* halves a sum at most once, so every value stays a multiple of 1/Scale.  *)
(***************************************************************************)
MaxCells == 6

RECURSIVE Pow2(_)
Pow2(n) == IF n = 0 THEN 1 ELSE 2 * Pow2(n - 1)

Scale == Pow2(MaxCells)

\* The values of the cells of the file read: 0.0, 1.0, 2.0.
CellValues == {0, Scale, 2 * Scale}

\* What a read outside the storage of Window may yield: any double.
Indeterminate == {0, Scale, 5 * Scale}

\* The arrays ReadData stores from a well-formed file: rows of one length,
\* or no row at all.
Arrays ==
    {<<>>} \cup
    UNION {[1..r -> [1..c -> CellValues]] :
              <<r, c>> \in {d \in (1..MaxCells) \X (1..MaxCells) :
                                d[1] * d[2] <= MaxCells}}

CsvIdle ==
    /\ Data = <<>> /\ FData = <<>> /\ ci = 0 /\ cj = 0
    /\ Window = <<>> /\ ZStack = <<>> /\ MedValue = 0
    /\ cpc = "idle"

\* Data has been read; FilterData is about to be called (main.cpp line 36).
InitCsv ==
    /\ prog = "csv"
    /\ Data \in Arrays
    /\ FData = <<>> /\ ci = 0 /\ cj = 0
    /\ Window = <<>> /\ ZStack = <<>> /\ MedValue = 0
    /\ cpc = "call"

\* Element k (0-based) of a vector.
At(v, k) == v[k + 1]

\* Lines 63-71: FData = Data, MedValue = 0.0, and the loops start.
FilterBegin ==
    /\ RunsCsv
    /\ cpc = "call"
    /\ FData' = Data
    /\ MedValue' = 0
    /\ ci' = 0 /\ cj' = 0
    /\ cpc' = IF Len(Data) = 0 THEN "return" ELSE "collect"
    /\ UNCHANGED <<Data, Window, ZStack>>

\* Lines 75-78: the limits of the sliding window, clipped to the array.
MaxM(i) == IF i + 2 < Len(FData) THEN i + 2 ELSE Len(FData)
MinM(i) == IF i - 1 >= 0 THEN i - 1 ELSE 0
MaxN(i, j) == IF j + 2 < Len(At(FData, i)) THEN j + 2 ELSE Len(At(FData, i))
MinN(j) == IF j - 1 >= 0 THEN j - 1 ELSE 0

\* Lines 85-93, in the order of the two loops: the window's cells.
WindowCells(i, j) ==
    LET rows == MaxM(i) - MinM(i)
        cols == MaxN(i, j) - MinN(j)
    IN  [k \in 1..(rows * cols) |->
            <<MinM(i) + ((k - 1) \div cols), MinN(j) + ((k - 1) % cols)>>]

IsZeroCell(c) == At(At(FData, c[1]), c[2]) = 0

\* Lines 81-93: clear ZStack, push every cell of the window on Window and
\* the indices of the zero ones on ZStack.
Collect ==
    /\ RunsCsv
    /\ cpc = "collect"
    /\ LET cells == WindowCells(ci, cj)
       IN  /\ Window' = Window \o [k \in DOMAIN cells |->
                                     At(At(FData, cells[k][1]), cells[k][2])]
           /\ ZStack' = SelectSeq(cells, IsZeroCell)
    /\ cpc' = "median"
    /\ UNCHANGED <<Data, FData, ci, cj, MedValue>>

\* Lines 100-103: the index of the first smallest element from e on.
RECURSIVE MinScan(_, _, _)
MinScan(W, k, min) ==
    IF k >= Len(W) THEN min
    ELSE MinScan(W, k + 1, IF At(W, k) < At(W, min) THEN k ELSE min)

\* Lines 104-106: exchange elements e and min.
Exchange(W, e, min) ==
    [k \in 1..Len(W) |->
        IF k = e + 1 THEN At(W, min) ELSE IF k = min + 1 THEN At(W, e) ELSE W[k]]

\* Lines 98-107: selection sort of the elements 0..mid.
RECURSIVE SortHalf(_, _, _)
SortHalf(W, e, mid) ==
    IF e > mid THEN W
    ELSE SortHalf(Exchange(W, e, MinScan(W, e + 1, e)), e + 1, mid)

\* Line 97.
Mid(W) == (Len(W) + 1) \div 2

\* Lines 110-116.
MedianOf(W, mid) ==
    IF Len(W) % 2 # 0 THEN At(W, mid)
    ELSE (At(W, mid - 1) + At(W, mid)) \div 2

\* Lines 97-116.  A window of one element (a 1 x 1 array) has mid = 1: the
\* pass e = 1 and line 112 read Window[1], outside the vector, which is
\* undefined behaviour; the value read is indeterminate.
Median ==
    /\ RunsCsv
    /\ cpc = "median"
    /\ IF Mid(Window) >= Len(Window)
       THEN /\ Window' = SortHalf(Window, 0, Len(Window) - 1)
            /\ MedValue' \in Indeterminate
       ELSE /\ Window' = SortHalf(Window, 0, Mid(Window))
            /\ MedValue' = MedianOf(Window', Mid(Window))
    /\ cpc' = "replace"
    /\ UNCHANGED <<Data, FData, ci, cj, ZStack>>

InZStack(zm, zn) == \E k \in DOMAIN ZStack : ZStack[k] = <<zm, zn>>

\* Lines 120-126: write MedValue over the zeros of the window, clear the
\* window, and go on to the next element; line 128 after the last one.
Replace ==
    /\ RunsCsv
    /\ cpc = "replace"
    /\ FData' = [r \in 1..Len(FData) |->
                    [c \in 1..Len(FData[r]) |->
                        IF InZStack(r - 1, c - 1) THEN MedValue
                        ELSE FData[r][c]]]
    /\ Window' = <<>>
    /\ IF cj + 1 < Len(At(FData, ci))
       THEN ci' = ci /\ cj' = cj + 1 /\ cpc' = "collect"
       ELSE IF ci + 1 < Len(FData)
       THEN ci' = ci + 1 /\ cj' = 0 /\ cpc' = "collect"
       ELSE ci' = ci /\ cj' = cj /\ cpc' = "return"
    /\ UNCHANGED <<Data, ZStack, MedValue>>

NextCsv ==
    \/ FilterBegin
    \/ Collect
    \/ Median
    \/ Replace

(***************************************************************************)
(*     Examn_objective/Sendthis/Task2/Myfunctions.cpp, Task 2/main.cpp     *)
(***************************************************************************)
MaxSortLen == 4

\* The integers the second container is drawn from.
SortValues == {0, 2, 4}

\* The strings of the first container: element k is Labels[k].
Labels == <<"A", "B", "C", "D", "E", "F", "G", "H">>

\* The containers a caller may pass: those of main.cpp (lines 22-23), and
\* every pair of a string vector and an integer vector up to MaxSortLen,
\* of equal size or not.
CallerContainers ==
    {<<SubSeq(Labels, 1, 5), <<0, 4, 2, 8, 4>> >>} \cup
    {<<SubSeq(Labels, 1, n1), iv>> :
        n1 \in 0..MaxSortLen,
        iv \in UNION {[1..n2 -> SortValues] : n2 \in 0..MaxSortLen}}

SortIdle ==
    /\ StringVector = <<>> /\ IntegerVector = <<>>
    /\ Cont1 = <<>> /\ Cont2 = <<>>
    /\ SortedCont1 = <<>> /\ SortedCont2 = <<>> /\ si = 0
    /\ Result = <<<<>>, <<>>>> /\ sexc = "none" /\ sout = <<>>
    /\ spc = "idle"

\* main.cpp line 29: Result is default-constructed, a pair of empty vectors.
InitSort ==
    /\ prog = "sort"
    /\ \E cc \in CallerContainers :
          StringVector = cc[1] /\ IntegerVector = cc[2]
    /\ Cont1 = <<>> /\ Cont2 = <<>>
    /\ SortedCont1 = <<>> /\ SortedCont2 = <<>> /\ si = 0
    /\ Result = <<<<>>, <<>>>> /\ sexc = "none" /\ sout = <<>>
    /\ spc = "call"

\* A function that takes its containers by reference and sorts them in
\* place: the caller's container becomes the working one.
CallerSharesWork(caller, work) == work

\* Lines 8, 18, 19: the containers are passed by value and the function
\* works on its own copies, so the caller's container is what it was
\* whatever the working copy has become.
CallerKeepsOwn(caller, work) == caller

\* main.cpp line 32: the call copies the arguments into Cont1 and Cont2.
Call ==
    /\ RunsSort
    /\ spc = "call"
    /\ Cont1' = StringVector
    /\ Cont2' = IntegerVector
    /\ spc' = "check"
    /\ UNCHANGED <<StringVector, IntegerVector, SortedCont1, SortedCont2, si,
                   Result, sexc, sout>>

\* A size test that sees a mismatch only when the first container is the
\* shorter one.
SizesDifferOnlyShorter(c1, c2) == Len(c1) < Len(c2)

\* Line 13: Cont1.size() != Cont2.size()
SizesDiffer(c1, c2) == Len(c1) # Len(c2)

\* Lines 13-22.  Sizes differ: print a notice and throw "Size mismatch error".  Otherwise copy
\* the containers and read Cont1[0], Cont2[0]; on empty containers that read
\* is undefined behaviour: the program crashes or goes on.
CheckSize ==
    /\ RunsSort
    /\ spc = "check"
    /\ IF SizesDiffer(Cont1, Cont2)
       THEN /\ sout' = Append(sout, "Data containers are not of the same size <!>.")
            /\ sexc' = "Size mismatch error"
            /\ spc' = "catch"
            /\ UNCHANGED <<SortedCont1, SortedCont2, si>>
       ELSE /\ SortedCont1' = Cont1
            /\ SortedCont2' = Cont2
            /\ si' = 0
            /\ sexc' = sexc
            /\ sout' = sout
            /\ \/ spc' = "loop"
               \/ Len(Cont1) = 0 /\ spc' = "crashed"
    /\ UNCHANGED <<StringVector, IntegerVector, Cont1, Cont2, Result>>

\* Lines 47-51.
Smaller(var1, var2) == IF var1 < var2 THEN TRUE ELSE FALSE

\* A scan that compares with the element at i instead of the pivot so far.
RECURSIVE PivotScanAgainstFirst(_, _, _, _)
PivotScanAgainstFirst(s, i, j, piv) ==
    IF j >= Len(s) THEN piv
    ELSE PivotScanAgainstFirst(s, i, j + 1,
                               IF Smaller(At(s, j), At(s, i)) THEN j ELSE piv)

\* Lines 27-31: the inner loop, from j with the pivot so far.
RECURSIVE PivotScan(_, _, _, _)
PivotScan(s, i, j, piv) ==
    IF j >= Len(s) THEN piv
    ELSE PivotScan(s, i, j + 1, IF Smaller(At(s, j), At(s, piv)) THEN j ELSE piv)

\* A sort that leaves the first container as it is.
SwapFirstForgotten(s, i, piv) == s

\* Lines 33-35: exchange elements i and piv of SortedCont1.
SwapFirst(s, i, piv) == Exchange(s, i, piv)

\* Lines 38-40: exchange elements i and piv of SortedCont2.
SwapSecond(s, i, piv) == Exchange(s, i, piv)

\* One iteration of the sorting loop (lines 25-41), or line 42 and the
\* assignment of main.cpp line 32 when the loop is over.
SortStep ==
    /\ RunsSort
    /\ spc = "loop"
    /\ IF si < Len(Cont2)
       THEN LET piv == PivotScan(SortedCont2, si, si + 1, si)
            IN  /\ SortedCont1' = SwapFirst(SortedCont1, si, piv)
                /\ SortedCont2' = SwapSecond(SortedCont2, si, piv)
                /\ StringVector' = CallerKeepsOwn(StringVector, SortedCont1')
                /\ IntegerVector' = CallerKeepsOwn(IntegerVector, SortedCont2')
                /\ si' = si + 1
                /\ UNCHANGED <<Result, spc>>
       ELSE /\ Result' = <<SortedCont1, SortedCont2>>
            /\ spc' = "print"
            /\ UNCHANGED <<StringVector, IntegerVector, SortedCont1,
                           SortedCont2, si>>
    /\ UNCHANGED <<Cont1, Cont2, sexc, sout>>

\* main.cpp lines 33-36: print the message, return EXIT_FAILURE.
Catch ==
    /\ RunsSort
    /\ spc = "catch"
    /\ sout' = Append(sout, sexc)
    /\ spc' = "exit_failure"
    /\ UNCHANGED <<StringVector, IntegerVector, Cont1, Cont2, SortedCont1,
                   SortedCont2, si, Result, sexc>>

\* main.cpp lines 37-43: print both containers, return EXIT_SUCCESS.
PrintResult ==
    /\ RunsSort
    /\ spc = "print"
    /\ sout' = sout \o Result[1] \o Result[2]
    /\ spc' = "exit_success"
    /\ UNCHANGED <<StringVector, IntegerVector, Cont1, Cont2, SortedCont1,
                   SortedCont2, si, Result, sexc>>

NextSort ==
    \/ Call
    \/ CheckSize
    \/ SortStep
    \/ Catch
    \/ PrintResult

(***************************************************************************)
(*                11_file_os_interaction/read_file_fast.cpp                *)
(* The POSIX build (FAST_FILE_READER_POSIX).  A pointer is an address, 0   *)
(* for nullptr; the byte at address MapAddress + k is byte k of the file.  *)
(***************************************************************************)
MaxFileLen == 4

\* The bytes the file is drawn from: 'a', 'b', '\n'.
FileBytes == {97, 98, 10}

NullPtr == 0

\* int fd_ = -1 (line 49).
NoFd == -1

\* What open() returns on success: the lowest free descriptor.
FirstFd == 3

\* What mmap() returns on success.
MapAddress == 4096

\* The readers: 1 is constructed from a file name, 2 is move-constructed
\* from 1.
Readers == {1, 2}

Unborn == [life |-> "unborn", fd_ |-> NoFd, data_ |-> NullPtr, file_size_ |-> 0]

\* A default-constructed std::string_view: data() is nullptr, size() is 0.
EmptyView == [data |-> NullPtr, size |-> 0]

NoIterator == [begin_ |-> NullPtr, end_ |-> NullPtr, current_ |-> EmptyView]

ReaderIdle ==
    /\ fbytes = <<>> /\ osFds = {} /\ osMaps = {}
    /\ reader = [r \in Readers |-> Unborn]
    /\ it = NoIterator /\ endIt = NoIterator /\ lines = <<>>
    /\ fpc = "idle"

\* Before FastFileReader reader(filename) (line 227): some file content,
\* nothing open, nothing mapped.
InitReader ==
    /\ prog = "reader"
    /\ fbytes \in UNION {[1..n -> FileBytes] : n \in 0..MaxFileLen}
    /\ osFds = {} /\ osMaps = {}
    /\ reader = [r \in Readers |-> Unborn]
    /\ it = NoIterator /\ endIt = NoIterator /\ lines = <<>>
    /\ fpc = "construct"

\* Lines 54-56 and 155-192 (POSIX branch): the constructor with each
\* outcome of open, fstat and mmap.
Construct ==
    /\ RunsReader
    /\ fpc = "construct"
    /\ \E outcome \in {"open fails", "fstat fails", "mmap fails", "ok"} :
          IF outcome = "open fails"
          THEN /\ reader' = [reader EXCEPT ![1] =
                      [life |-> "alive", fd_ |-> NoFd, data_ |-> NullPtr,
                       file_size_ |-> 0]]
               /\ UNCHANGED <<osFds, osMaps>>
          ELSE IF outcome = "fstat fails"
          THEN /\ reader' = [reader EXCEPT ![1] =
                      [life |-> "alive", fd_ |-> FirstFd, data_ |-> NullPtr,
                       file_size_ |-> 0]]
               /\ osFds' = osFds \cup {FirstFd}
               /\ UNCHANGED osMaps
          ELSE IF Len(fbytes) = 0 \/ outcome = "mmap fails"
          THEN /\ reader' = [reader EXCEPT ![1] =
                      [life |-> "alive", fd_ |-> FirstFd, data_ |-> NullPtr,
                       file_size_ |-> Len(fbytes)]]
               /\ osFds' = osFds \cup {FirstFd}
               /\ UNCHANGED osMaps
          ELSE /\ reader' = [reader EXCEPT ![1] =
                      [life |-> "alive", fd_ |-> FirstFd, data_ |-> MapAddress,
                       file_size_ |-> Len(fbytes)]]
               /\ osFds' = osFds \cup {FirstFd}
               /\ osMaps' = osMaps \cup {MapAddress}
    /\ fpc' = "ready"
    /\ UNCHANGED <<fbytes, it, endIt, lines>>

\* Lines 77-94 (POSIX branch): the move constructor takes file_size_ and
\* data_; fd_ is not in the initialiser list and keeps its default -1; the
\* source is left with nullptr, 0 and -1.
MoveConstruct ==
    /\ RunsReader
    /\ fpc = "ready"
    /\ reader[1].life = "alive"
    /\ reader[2].life = "unborn"
    /\ reader' = [reader EXCEPT
          ![2] = [life |-> "alive", fd_ |-> NoFd,
                  data_ |-> reader[1].data_,
                  file_size_ |-> reader[1].file_size_],
          ![1] = [life |-> "alive", fd_ |-> NoFd, data_ |-> NullPtr,
                  file_size_ |-> 0]]
    /\ UNCHANGED <<fbytes, osFds, osMaps, it, endIt, lines, fpc>>

\* Lines 59-70 (POSIX branch): only a reader with a mapping unmaps and
\* closes.
Destroy(r) ==
    /\ RunsReader
    /\ fpc = "ready"
    /\ reader[r].life = "alive"
    /\ IF reader[r].data_ # NullPtr
       THEN /\ osMaps' = osMaps \ {reader[r].data_}
            /\ osFds' = IF reader[r].fd_ >= 0 THEN osFds \ {reader[r].fd_}
                        ELSE osFds
       ELSE UNCHANGED <<osFds, osMaps>>
    /\ reader' = [reader EXCEPT ![r].life = "destroyed"]
    /\ UNCHANGED <<fbytes, it, endIt, lines, fpc>>

\* The byte at an address inside the mapping.
ByteAt(a) == fbytes[a - MapAddress + 1]

\* std::memchr(begin_, '\n', end_ - begin_): the address of the first
\* newline in [from, to), nullptr when there is none.
RECURSIVE MemChr(_, _)
MemChr(from, to) ==
    IF from >= to THEN NullPtr
    ELSE IF ByteAt(from) = 10 THEN from ELSE MemChr(from + 1, to)

\* Lines 112-126: advance().
Advance(i) ==
    IF i.begin_ >= i.end_
    THEN [i EXCEPT !.current_ = EmptyView]
    ELSE LET line_end == MemChr(i.begin_, i.end_)
         IN  IF line_end # NullPtr
             THEN [i EXCEPT !.current_ = [data |-> i.begin_,
                                          size |-> line_end - i.begin_],
                            !.begin_ = line_end + 1]
             ELSE [i EXCEPT !.current_ = [data |-> i.begin_,
                                          size |-> i.end_ - i.begin_],
                            !.begin_ = i.end_]

\* Lines 129-136: the constructor of LineIterator.
LineIterator(start, end, at_end) ==
    LET fresh == [begin_ |-> start, end_ |-> end, current_ |-> EmptyView]
    IN  IF at_end THEN fresh ELSE Advance(fresh)

\* A comparison of the views' contents: an empty line equals end().
DiffersByContent(a, b) == a.current_.size # b.current_.size

\* Lines 145-147: operator!= compares the data pointers of the views.
Differs(a, b) == a.current_.data # b.current_.data

\* The bytes a string_view denotes.
ViewBytes(v) == [k \in 1..v.size |-> ByteAt(v.data + k - 1)]

\* Line 97: is_open().
IsOpen(rd) == rd.data_ # NullPtr

\* for (... : reader): begin() and end() of lines 151-152.  As in main
\* (lines 229-232), only a reader that is_open() is iterated.
BeginLoop(r) ==
    /\ RunsReader
    /\ fpc = "ready"
    /\ reader[r].life = "alive"
    /\ IsOpen(reader[r])
    /\ it' = LineIterator(reader[r].data_,
                          reader[r].data_ + reader[r].file_size_, FALSE)
    /\ endIt' = LineIterator(reader[r].data_,
                             reader[r].data_ + reader[r].file_size_, TRUE)
    /\ lines' = <<>>
    /\ fpc' = "loop"
    /\ UNCHANGED <<fbytes, osFds, osMaps, reader>>

\* One round of the range-for loop: test it != end, hand *it to the body,
\* ++it; the loop is left when the test fails.
LoopStep ==
    /\ RunsReader
    /\ fpc = "loop"
    /\ IF Differs(it, endIt)
       THEN /\ lines' = Append(lines, ViewBytes(it.current_))
            /\ it' = Advance(it)
            /\ fpc' = fpc
       ELSE /\ fpc' = "ready"
            /\ UNCHANGED <<lines, it>>
    /\ UNCHANGED <<fbytes, osFds, osMaps, reader, endIt>>

NextReader ==
    \/ Construct
    \/ MoveConstruct
    \/ \E r \in Readers : Destroy(r)
    \/ \E r \in Readers : BeginLoop(r)
    \/ LoopStep

(***************************************************************************)
(*                    6_oop/static_methods_members.cpp                     *)
(***************************************************************************)
\* How many Player objects one run makes.
MaxPlayers == 4

PlayerIdle ==
    /\ instance_count_ = 0
    /\ players = <<>>

\* Line 57: the counter starts at 0; no Player exists.
InitPlayer ==
    /\ prog = "player"
    /\ instance_count_ = 0
    /\ players = <<>>

\* Lines 33-36: Player(const std::string&) increments the counter and
\* takes its new value as id_.
NewPlayer ==
    /\ RunsPlayer
    /\ Len(players) < MaxPlayers
    /\ instance_count_' = instance_count_ + 1
    /\ players' = Append(players, [alive |-> TRUE, id_ |-> instance_count_'])

\* Player q(p) for a living p.  Class Player declares no copy constructor
\* (lines 31-58): the implicit one copies name_ and id_ and leaves
\* instance_count_ alone.
CopyPlayer(from) ==
    /\ RunsPlayer
    /\ Len(players) < MaxPlayers
    /\ players[from].alive
    /\ players' = Append(players, [alive |-> TRUE, id_ |-> players[from].id_])
    /\ UNCHANGED instance_count_

\* Lines 38-40: ~Player decrements the counter.
DestroyPlayer(p) ==
    /\ RunsPlayer
    /\ players[p].alive
    /\ instance_count_' = instance_count_ - 1
    /\ players' = [players EXCEPT ![p].alive = FALSE]

\* Lines 48-50.
alive_count == instance_count_

NextPlayer ==
    \/ NewPlayer
    \/ \E from \in 1..Len(players) : CopyPlayer(from)
    \/ \E p \in 1..Len(players) : DestroyPlayer(p)

(***************************************************************************)
(*                           Specifications                                *)
(***************************************************************************)
\* One run of any program of the repository.
StartMutex == InitMutex /\ WordsIdle /\ CsvIdle /\ SortIdle /\ ReaderIdle
                        /\ PlayerIdle
StartWords == InitWords /\ MutexIdle /\ CsvIdle /\ SortIdle /\ ReaderIdle
                        /\ PlayerIdle
StartCsv == InitCsv /\ MutexIdle /\ WordsIdle /\ SortIdle /\ ReaderIdle
                    /\ PlayerIdle
StartSort == InitSort /\ MutexIdle /\ WordsIdle /\ CsvIdle /\ ReaderIdle
                      /\ PlayerIdle
StartReader == InitReader /\ MutexIdle /\ WordsIdle /\ CsvIdle /\ SortIdle
                          /\ PlayerIdle
StartPlayer == InitPlayer /\ MutexIdle /\ WordsIdle /\ CsvIdle /\ SortIdle
                          /\ ReaderIdle

Init ==
    \/ StartMutex \/ StartWords \/ StartCsv \/ StartSort \/ StartReader
    \/ StartPlayer

Next ==
    \/ NextMutex \/ NextWords \/ NextCsv \/ NextSort \/ NextReader
    \/ NextPlayer

Spec == Init /\ [][Next]_vars

\* One run of words_frequency.
SpecWords == StartWords /\ [][NextWords]_vars

\* One call of CsvClass::FilterData.
SpecCsv == StartCsv /\ [][NextCsv]_vars

\* One run of Task 2's main on some pair of containers.
SpecSort == StartSort /\ [][NextSort]_vars

\* The life of a FastFileReader and of the reader moved from it.
SpecReader == StartReader /\ [][NextReader]_vars

\* Any sequence of constructions, copies and destructions of Players.
SpecPlayer == StartPlayer /\ [][NextPlayer]_vars

(***************************************************************************)
(*                              Claims                                     *)
(***************************************************************************)
\* The critical section of addMoney: after m.lock() returned, before
\* m.unlock() has released the mutex.
InCritical(t) == tpc[t] \in {"load", "store", "unlock"}

\* C1: for every interleaving of t1 and t2, once both joins have returned
\* myAmount is 2 (no increment is lost); main prints the "2 means ..."
\* message and never the "race condition" one.
C1_NoLostIncrement ==
    /\ (prog = "mutex" /\ mpc \in {"if", "return"}) => myAmount = 2
    /\ (prog = "mutex" /\ mpc = "return") => mout = "sequential"
    /\ mout # "race"

C1_Witness ==
    /\ prog = "mutex" /\ mpc = "return"
    /\ tpc = [t \in Threads |-> "finished"]
    /\ mout = "sequential" /\ myAmount = 2

\* C2: the two threads are never both inside the critical section of
\* addMoney (between m.lock() and m.unlock()).
C2_MutualExclusion ==
    prog = "mutex" =>
        ~(InCritical(1) /\ InCritical(2))

\* t2 waits at m.lock() while t1 is between its read and its write.
C2_Witness ==
    /\ prog = "mutex"
    /\ tpc[1] = "store" /\ tpc[2] = "lock" /\ m = 1


\* ---- words_frequency.cpp
\* The punctuation characters of ASCII, and the lowercase form of a letter.
PunctuationChars ==
    {33, 34, 35, 36, 37, 38, 39, 40, 41, 42, 43, 44, 45, 46, 47,
     58, 59, 60, 61, 62, 63, 64, 91, 92, 93, 94, 95, 96, 123, 124, 125, 126}

LowerOf(c) == IF 65 <= c /\ c <= 90 THEN c + 32 ELSE c

Whitespace == {9, 10, 11, 12, 13, 32}

\* The whitespace-separated tokens of s, as <<first, last>> positions: the
\* maximal runs of characters that are no whitespace.
TokenSpans(s) ==
    {sp \in (1..Len(s)) \X (1..Len(s)) :
        /\ sp[1] <= sp[2]
        /\ \A k \in sp[1]..sp[2] : s[k] \notin Whitespace
        /\ sp[1] = 1 \/ s[sp[1] - 1] \in Whitespace
        /\ sp[2] = Len(s) \/ s[sp[2] + 1] \in Whitespace}

NotPunctuation(c) == c \notin PunctuationChars

\* A token with all punctuation removed, in lowercase.
Normalised(tok) ==
    LET kept == SelectSeq(tok, NotPunctuation)
    IN  [i \in 1..Len(kept) |-> LowerOf(kept[i])]

TokensAs(s, w) ==
    {sp \in TokenSpans(s) : Normalised(SubSeq(s, sp[1], sp[2])) = w}

ParseDone == prog = "words" /\ wpc \in {"vec", "sort", "print", "return"}

\* C3: after parse(map, text) on an empty map, for every string w the count
\* map[w] is the number of whitespace-separated tokens of text whose form
\* without punctuation and in lowercase is w (0, that is no entry, when
\* there is none); tokens that differ only in case or punctuation share a key.
C3_ParseCounts ==
    ParseDone =>
        /\ \A w \in DOMAIN map : map[w] = Cardinality(TokensAs(text, w))
        /\ \A sp \in TokenSpans(text) :
              Normalised(SubSeq(text, sp[1], sp[2])) \in DOMAIN map

\* Two tokens that differ in case or punctuation were counted under one key.
C3_Witness ==
    /\ ParseDone
    /\ \E sp, sq \in TokenSpans(text) :
          /\ SubSeq(text, sp[1], sp[2]) # SubSeq(text, sq[1], sq[2])
          /\ Normalised(SubSeq(text, sp[1], sp[2]))
               = Normalised(SubSeq(text, sq[1], sq[2]))
          /\ map[Normalised(SubSeq(text, sp[1], sp[2]))] = 2

\* a comes before b in ascending lexicographic order.
LexBefore(a, b) ==
    \E k \in 1..(Len(b)) :
        /\ \A i \in 1..(k - 1) : i <= Len(a) /\ a[i] = b[i]
        /\ k > Len(a) \/ a[k] < b[k]

\* C4: main prints each distinct counted word exactly once, with its count,
\* in order of non-increasing count, words of equal count in ascending
\* lexicographic order; whatever order the hash map was iterated in.
C4_PrintedOrder ==
    (prog = "words" /\ wpc = "return") =>
        /\ Len(wout) = Cardinality(DOMAIN map)
        /\ {wout[i][1] : i \in DOMAIN wout} = DOMAIN map
        /\ \A i \in DOMAIN wout : wout[i][2] = map[wout[i][1]]
        /\ \A i, j \in DOMAIN wout :
              i < j => \/ wout[i][2] > wout[j][2]
                       \/ /\ wout[i][2] = wout[j][2]
                          /\ LexBefore(wout[i][1], wout[j][1])

\* Two words were printed, the more frequent first although it is the
\* later one in lexicographic order.
C4_Witness ==
    /\ prog = "words" /\ wpc = "return"
    /\ Len(wout) = 2
    /\ wout[1][2] > wout[2][2]
    /\ LexBefore(wout[2][1], wout[1][1])

\* C5: when the file cannot be opened, read_file throws "cannot open file"
\* before reading anything; main does not catch it, and nothing is parsed
\* or printed in that run.  No other step raises an exception.
C5_OpenFailure ==
    prog = "words" =>
        /\ (~fileOk /\ wpc # "open") =>
              /\ exc = "cannot open file" /\ wpc = "terminated"
              /\ text = <<>> /\ pos = 1 /\ DOMAIN map = {}
              /\ vec = <<>> /\ wout = <<>>
        /\ fileOk => exc = "none" /\ wpc # "terminated"

C5_Witness ==
    /\ prog = "words" /\ ~fileOk
    /\ wpc = "terminated" /\ exc = "cannot open file"


\* ---- CsvInOut.cpp

\* The values of a window in non-decreasing order.
RECURSIVE Sorted(_)
Sorted(W) ==
    IF W = <<>> THEN <<>>
    ELSE LET least == CHOOSE k \in DOMAIN W : \A l \in DOMAIN W : W[k] <= W[l]
         IN  <<W[least]>> \o
             Sorted([k \in 1..(Len(W) - 1) |-> IF k < least THEN W[k] ELSE W[k + 1]])

\* The median: the middle element of the sorted values when their number
\* is odd, the mean of the two middle ones when it is even.
TrueMedian(W) ==
    LET S == Sorted(W)
        n == Len(W)
    IN  IF n % 2 = 1 THEN S[(n + 1) \div 2]
        ELSE (S[n \div 2] + S[n \div 2 + 1]) \div 2

\* The number of cells of an array.
RECURSIVE CellCount(_)
CellCount(A) == IF A = <<>> THEN 0 ELSE Len(Head(A)) + CellCount(Tail(A))

\* C6: the array FilterData returns contains no element equal to 0.  (Stated
\* for the arrays of two cells or more, where every read of FilterData is
\* inside its vector.)
C6_NoZeroReturned ==
    (prog = "csv" /\ cpc = "return" /\ CellCount(Data) >= 2) =>
        \A r \in DOMAIN FData : \A c \in DOMAIN FData[r] : FData[r][c] # 0

\* C7: for every sliding window, the MedValue that replaces the zeros is
\* the median of the window's values: the middle element of the sorted
\* window when their number is odd, the mean of the two middle ones when it
\* is even.  (Stated for the windows of two elements or more, where line 112
\* reads inside the vector.)
C7_MedValueIsMedian ==
    (prog = "csv" /\ cpc = "replace" /\ Len(Window) >= 2) =>
        MedValue = TrueMedian(Window)

\* What FilterData does establish: MedValue is the median of every window
\* with an even number of elements.
C7_EvenWindowMedian ==
    (prog = "csv" /\ cpc = "replace" /\ Len(Window) % 2 = 0) =>
        MedValue = TrueMedian(Window)


\* ---- Myfunctions.cpp
\* How many positions of a hold x.
Occurrences(a, x) == Cardinality({k \in DOMAIN a : a[k] = x})

\* How many positions hold x in a and y in b.
PairOccurrences(a, b, x, y) ==
    Cardinality({k \in DOMAIN a : a[k] = x /\ b[k] = y})

SortReturned == prog = "sort" /\ spc \in {"print", "exit_success"}

\* C8: for containers of equal size, the second container returned is a
\* permutation of Cont2 ordered by the comparison: with Smaller, the
\* integers are in non-decreasing order.
C8_SecondSorted ==
    SortReturned =>
        /\ Len(Result[2]) = Len(IntegerVector)
        /\ \A x \in {IntegerVector[k] : k \in DOMAIN IntegerVector} :
              Occurrences(Result[2], x) = Occurrences(IntegerVector, x)
        /\ \A i, j \in DOMAIN Result[2] :
              i < j => Result[2][i] <= Result[2][j]

\* A container that was not in order has been returned.
C8_Witness ==
    /\ SortReturned
    /\ \E i, j \in DOMAIN IntegerVector :
          i < j /\ IntegerVector[i] > IntegerVector[j]
    /\ \E i, j \in DOMAIN IntegerVector :
          i < j /\ IntegerVector[i] = IntegerVector[j]

\* C9: the same permutation is applied to both containers: the pairs
\* (result.first[k], result.second[k]) are the input pairs
\* (Cont1[k], Cont2[k]), each as many times.
C9_PairsKept ==
    SortReturned =>
        /\ Len(Result[1]) = Len(StringVector)
        /\ Len(Result[2]) = Len(StringVector)
        /\ \A k \in DOMAIN StringVector :
              PairOccurrences(Result[1], Result[2],
                              StringVector[k], IntegerVector[k])
                = PairOccurrences(StringVector, IntegerVector,
                                  StringVector[k], IntegerVector[k])

\* The first container has been reordered.
C9_Witness ==
    /\ SortReturned
    /\ Len(Result[1]) >= 3
    /\ \E k \in DOMAIN Result[1] : Result[1][k] # StringVector[k]

\* C10: SortFunctionOne does not modify the caller's containers: no step of
\* the call, whether it returns or throws, changes StringVector or
\* IntegerVector.
C10_CallerUntouched ==
    [][prog = "sort" =>
          StringVector' = StringVector /\ IntegerVector' = IntegerVector]_vars

\* The call has returned another order than the caller's, or has thrown.
C10_Witness ==
    /\ prog = "sort"
    /\ \/ spc = "exit_success" /\ Result[2] # IntegerVector
                               /\ Result[1] # StringVector
       \/ spc = "exit_failure" /\ sexc = "Size mismatch error"


\* C11: when Cont1.size() differs from Cont2.size(), SortFunctionOne throws
\* "Size mismatch error" before doing any sorting and returns no result
\* pair; main catches it, prints it and exits with EXIT_FAILURE without
\* printing either container.
C11_SizeMismatch ==
    (prog = "sort" /\ Len(StringVector) # Len(IntegerVector)
                   /\ spc \notin {"call", "check"}) =>
        /\ sexc = "Size mismatch error"
        /\ spc \in {"catch", "exit_failure"}
        /\ SortedCont1 = <<>> /\ SortedCont2 = <<>> /\ si = 0
        /\ Result = <<<<>>, <<>>>>
        /\ spc = "exit_failure" =>
              sout = <<"Data containers are not of the same size <!>.",
                       "Size mismatch error">>

\* main has caught the error of a call with a longer first container.
C11_Witness ==
    /\ prog = "sort" /\ spc = "exit_failure"
    /\ Len(StringVector) > Len(IntegerVector) /\ Len(IntegerVector) > 0
    /\ sexc = "Size mismatch error"


\* ---- read_file_fast.cpp
\* The positions where a line of the file b starts: position 1, and the
\* position after each '\n' that is not the last byte.
LineStarts(b) ==
    {k \in 1..Len(b) : k = 1 \/ b[k - 1] = 10}

\* The line that starts at position k: the bytes up to, and without, the
\* next '\n' or the end of the file.
LineFrom(b, k) ==
    LET stop == CHOOSE e \in k..(Len(b) + 1) :
                    /\ e = Len(b) + 1 \/ b[e] = 10
                    /\ \A j \in k..(e - 1) : b[j] # 10
    IN  SubSeq(b, k, stop - 1)

\* The lines of b in order.
LinesOf(b) ==
    LET starts == LineStarts(b)
        nth(n) == CHOOSE k \in starts :
                      Cardinality({j \in starts : j < k}) = n - 1
    IN  [n \in 1..Cardinality(starts) |-> LineFrom(b, nth(n))]

NewlineCount(b) == Cardinality({k \in 1..Len(b) : b[k] = 10})

IsPrefix(a, b) == Len(a) <= Len(b) /\ a = SubSeq(b, 1, Len(a))

\* A loop over a mapped file is running, or is the last one that ran.
LoopOverMapping == prog = "reader" /\ endIt.end_ # NullPtr

\* C12: iterating from begin() to end() over a mapped non-empty file yields
\* the file's lines in order, once each (an empty line as an empty view,
\* without ending the loop, and the last line when no '\n' ends the file);
\* the loop never yields more than these and ends after the last one, so
\* their number is the number of '\n' plus one if the last byte is none.
C12_LinesInOrder ==
    LoopOverMapping =>
        /\ fpc = "loop" =>
              /\ IsPrefix(lines, LinesOf(fbytes))
              /\ Differs(it, endIt) <=> Len(lines) < Len(LinesOf(fbytes))
        /\ fpc = "ready" =>
              /\ lines = LinesOf(fbytes)
              /\ Len(lines) = NewlineCount(fbytes)
                    + (IF fbytes[Len(fbytes)] # 10 THEN 1 ELSE 0)

\* A loop has ended after yielding an empty line in the middle of a file
\* that does not end with '\n'.
C12_Witness ==
    /\ LoopOverMapping /\ fpc = "ready"
    /\ Len(lines) = 3 /\ lines[2] = <<>> /\ lines[3] # <<>>

\* Every reader that was constructed has been destroyed.
AllDestroyed ==
    /\ prog = "reader"
    /\ reader[1].life = "destroyed"
    /\ reader[2].life \in {"unborn", "destroyed"}

\* C13: whatever the outcome of open_and_map, and after any move
\* construction, once the readers are destroyed every descriptor that was
\* opened is closed and every mapping that was created is unmapped.
C13_NothingLeaked ==
    AllDestroyed => osFds = {} /\ osMaps = {}

\* What the destructors do release: the mapping.
C13_MappingReleased ==
    AllDestroyed => osMaps = {}

\* ---- static_methods_members.cpp
AlivePlayers == {p \in 1..Len(players) : players[p].alive}

\* C14: after any constructions, copies and destructions of Players,
\* Player::alive_count() is the number of Players alive: never negative,
\* and 0 when none exists.
C14_AliveCount ==
    prog = "player" => alive_count = Cardinality(AlivePlayers)

\* What holds of the counter: it never exceeds the number of Players
\* alive.
C14_CountAtMostAlive ==
    prog = "player" => alive_count <= Cardinality(AlivePlayers)

=============================================================================
